---------------------------- MODULE Spec2Model ----------------------------
(***************************************************************************)
(* Model of the chunked-upload server (src/server.js) and of the B2 upload *)
(* module (src/modules/b2Upload.js).                                       *)
(*                                                                         *)
(* Strings are sequences of one-character strings, so that the string      *)
(* operations of the code (template concatenation, path.parse, parseInt)   *)
(* are computed and not assumed.  File contents are sequences of small     *)
(* integers; one element stands for one MiB, which is the unit of the      *)
(* 5 MiB threshold and of the 5 MiB part size.  Time is counted in hours,  *)
(* the unit of the two cleanup thresholds.                                 *)
(***************************************************************************)
EXTENDS Integers, Sequences, FiniteSets, TLC

VARIABLES
    activeUploads,  \* server.js:53   Map uploadId -> upload info
    chunksDir,      \* uploads/chunks: file name -> [data, mtime]
    uploadsDir,     \* uploads: temp file name -> [data, mtime]
    bucket,         \* the B2 bucket: key -> object bytes
    now,            \* Date.now(), in hours
    rand,           \* number of crypto.randomBytes draws made so far
    chunkReqs,      \* POST /upload/chunk requests multer has written, in order
    completeReqs,   \* POST /upload/complete requests: position and locals
    immediates,     \* chunk paths whose setImmediate unlink is pending
    lastResp,       \* the response sent last
    used,           \* how many requests the run has made
    attached,       \* history: <<uploadId, index>> -> the last successful attach
    reaped,         \* history: the upload ids the cleanup task has expired
    b2,             \* uploadFileToB2 / uploadLargeFile calls (SpecB2)
    batch,          \* uploadFilesToB2 / POST /upload file tasks (SpecKeys)
    calls           \* log of the calls made to the object store

vars == <<activeUploads, chunksDir, uploadsDir, bucket, now, rand, chunkReqs,
          completeReqs, immediates, lastResp, used, attached, reaped, b2, batch, calls>>

serverVars == <<activeUploads, chunksDir, uploadsDir, now, rand, chunkReqs,
                completeReqs, immediates, lastResp>>

----------------------------------------------------------------------------
(* Bounds of the model. *)

\* Requests (init, chunk, complete) made in a run.
MaxRequests == 4
\* The largest file handed to uploadFileToB2, in MiB.
MaxFileSize == 11
\* The most files in one call of uploadFilesToB2 or one POST /upload.
MaxFiles == 2

----------------------------------------------------------------------------
(* Program constants, in the model's units. *)

\* server.js:58  uploadSessionTimeout: 24 * 60 * 60 * 1000 ms = 24 h
uploadSessionTimeout == 24
\* server.js:59  maxChunkAge: 2 * 60 * 60 * 1000 ms = 2 h
maxChunkAge == 2
\* b2Upload.js:158  fileSize <= 5 * 1024 * 1024: single upload up to 5 MiB
singleUploadLimit == 5
\* b2Upload.js:179  partSize = 5 * 1024 * 1024: 5 MiB
partSize == 5

----------------------------------------------------------------------------
(* Generic helpers. *)

Range(s) == {s[i] : i \in 1..Len(s)}

Min(a, b) == IF a <= b THEN a ELSE b

\* The function f without the key k (Map.delete, fs.unlinkSync).
Without(f, k) == [x \in (DOMAIN f) \ {k} |-> f[x]]

\* The function f with f[k] = v, k new or not (Map.set on a keyed store, a file write).
With(f, k, v) == [x \in (DOMAIN f) \cup {k} |-> IF x = k THEN v ELSE f[x]]

EmptyMap == [x \in {} |-> 0]

RECURSIVE Flatten(_)
Flatten(ss) == IF ss = <<>> THEN <<>> ELSE Head(ss) \o Flatten(Tail(ss))

----------------------------------------------------------------------------
(* Strings. *)

HexDigits == <<"0", "1", "2", "3", "4", "5", "6", "7", "8", "9",
               "a", "b", "c", "d", "e", "f">>

\* The value of the character c as a digit of the given radix, or -1.
DigitValue(c, radix) ==
    LET lower == IF c = "A" THEN "a" ELSE IF c = "B" THEN "b"
                 ELSE IF c = "C" THEN "c" ELSE IF c = "D" THEN "d"
                 ELSE IF c = "E" THEN "e" ELSE IF c = "F" THEN "f" ELSE c
        hits == {i \in 1..radix : HexDigits[i] = lower}
    IN  IF hits = {} THEN -1 ELSE (CHOOSE i \in hits : TRUE) - 1

\* crypto.randomBytes(16).toString('hex'): the n-th draw.  Draws are distinct;
\* the 32 hex characters are shortened to the characters that tell draws apart.
RECURSIVE ToHex(_)
ToHex(n) == IF n < 16 THEN <<HexDigits[n + 1]>>
            ELSE ToHex(n \div 16) \o <<HexDigits[(n % 16) + 1]>>

\* String(n) for a non-negative integer.
RECURSIVE ToDecimal(_)
ToDecimal(n) == IF n < 10 THEN <<HexDigits[n + 1]>>
                ELSE ToDecimal(n \div 10) \o <<HexDigits[(n % 10) + 1]>>

\* A parsed number: parseInt answers an integer or NaN.
NaN == [nan |-> TRUE, n |-> 0]
Num(k) == [nan |-> FALSE, n |-> k]

\* The length of the longest prefix of s made of digits of the radix.
RECURSIVE DigitPrefixLen(_, _)
DigitPrefixLen(s, radix) ==
    IF s = <<>> \/ DigitValue(Head(s), radix) < 0 THEN 0
    ELSE 1 + DigitPrefixLen(Tail(s), radix)

RECURSIVE DigitsValue(_, _)
DigitsValue(s, radix) ==
    IF s = <<>> THEN 0
    ELSE DigitsValue(SubSeq(s, 1, Len(s) - 1), radix) * radix
            + DigitValue(s[Len(s)], radix)

RECURSIVE SkipSpaces(_)
SkipSpaces(s) == IF s # <<>> /\ Head(s) = " " THEN SkipSpaces(Tail(s)) ELSE s

\* parseInt(s) with no radix argument: leading blanks, an optional sign, an
\* optional 0x prefix, then the longest run of digits; NaN when there is none.
parseInt(s) ==
    LET t == SkipSpaces(s)
        neg == t # <<>> /\ Head(t) = "-"
        u == IF t # <<>> /\ Head(t) \in {"-", "+"} THEN Tail(t) ELSE t
        hex == Len(u) >= 2 /\ u[1] = "0" /\ u[2] \in {"x", "X"}
        radix == IF hex THEN 16 ELSE 10
        v == IF hex THEN SubSeq(u, 3, Len(u)) ELSE u
        k == DigitPrefixLen(v, radix)
        m == DigitsValue(SubSeq(v, 1, k), radix)
    IN  IF k = 0 THEN NaN ELSE Num(IF neg THEN 0 - m ELSE m)

\* path.parse(filename) for a name without directory part: {name, ext}.  The
\* extension runs from the last dot to the end, unless that dot is the first
\* character (".bashrc") or the name is "..".
pathParse(filename) ==
    LET dots == {i \in 1..Len(filename) : filename[i] = "."}
        last == IF dots = {} THEN 0
                ELSE CHOOSE i \in dots : \A j \in dots : j <= i
        noExt == last <= 1 \/ filename = <<".", ".">>
    IN  IF noExt THEN [name |-> filename, ext |-> <<>>]
        ELSE [name |-> SubSeq(filename, 1, last - 1),
              ext |-> SubSeq(filename, last, Len(filename))]

\* `${userId}/${fileName}`
ObjectKey(userId, fileName) == userId \o <<"/">> \o fileName


----------------------------------------------------------------------------
(* Values of a JSON request body. *)

Undefined == [kind |-> "undefined", s |-> <<>>, n |-> 0]
Str(chars) == [kind |-> "string", s |-> chars, n |-> 0]
Number(k) == [kind |-> "number", s |-> <<>>, n |-> k]

\* !v
Falsy(v) == \/ v.kind = "undefined"
            \/ v.kind = "string" /\ v.s = <<>>
            \/ v.kind = "number" /\ v.n = 0

\* String(v), as parseInt and template strings apply it.
StringOf(v) == IF v.kind = "string" THEN v.s
               ELSE IF v.kind = "number" THEN ToDecimal(v.n)
               ELSE <<"u", "n", "d", "e", "f", "i", "n", "e", "d">>

Guest == <<"g", "u", "e", "s", "t">>

\* An upload id no init call ever returned.
UnknownId == <<"z">>

----------------------------------------------------------------------------
(* Responses. *)

NoResp == [route |-> "none", status |-> 0, uploadId |-> <<>>, index |-> NaN,
           receivedChunks |-> 0, fileName |-> <<>>, b2Key |-> <<>>,
           fileSize |-> 0]

Resp(route, status, uploadId) ==
    [NoResp EXCEPT !.route = route, !.status = status, !.uploadId = uploadId]

\* The lowest request slot not in use.
FreeSlot(reqs) ==
    CHOOSE i \in 1..(Cardinality(DOMAIN reqs) + 1) :
        /\ i \notin DOMAIN reqs
        /\ \A j \in 1..(i - 1) : j \in DOMAIN reqs

----------------------------------------------------------------------------
(* POST /upload/init  (server.js:241-276) *)

\* Mutant of generateRandomFilename: the extension is dropped.
generateRandomFilenameBare(originalFilename, token) == token

\* server.js:172-178.  token is the crypto.randomBytes draw.
generateRandomFilename(originalFilename, token) ==
    token \o pathParse(originalFilename).ext

UploadInit(fileName, fileSize, userIdIn) ==
    /\ used < MaxRequests
    /\ used' = used + 1
    /\ IF Falsy(fileName) \/ Falsy(fileSize)
       THEN /\ lastResp' = Resp("init", 400, <<>>)
            /\ UNCHANGED <<activeUploads, rand>>
       ELSE IF fileName.kind # "string"
       THEN \* server.js:173  path.parse throws on a name that is no string;
            \* server.js:272-275 answers 500.  The id drawn is never used.
            /\ lastResp' = Resp("init", 500, <<>>)
            /\ UNCHANGED <<activeUploads, rand>>
       ELSE LET userId == IF userIdIn.kind = "undefined" THEN Guest
                          ELSE StringOf(userIdIn)
                uploadId == ToHex(rand)
                finalFileName ==
                    generateRandomFilename(StringOf(fileName), ToHex(rand + 1))
            IN  /\ activeUploads' =
                     With(activeUploads, uploadId,
                          [fileName |-> finalFileName,
                           originalFileName |-> StringOf(fileName),
                           userId |-> userId,
                           fileSize |-> parseInt(StringOf(fileSize)),
                           chunks |-> <<>>,
                           createdAt |-> now])
                /\ rand' = rand + 2
                /\ lastResp' = [Resp("init", 200, uploadId)
                                  EXCEPT !.fileName = finalFileName]
    /\ UNCHANGED <<chunksDir, uploadsDir, bucket, now, chunkReqs, completeReqs,
                   immediates, attached, reaped, b2, batch, calls>>

----------------------------------------------------------------------------
(* POST /upload/chunk  (server.js:25-40, 279-338) *)

\* The segments of a path, split at the slashes.
RECURSIVE pathSegments(_)
pathSegments(chars) ==
    IF \A i \in 1..Len(chars) : chars[i] # "/" THEN <<chars>>
    ELSE LET k == CHOOSE i \in 1..Len(chars) :
                     chars[i] = "/" /\ \A j \in 1..(i - 1) : chars[j] # "/"
         IN  <<SubSeq(chars, 1, k - 1)>>
                \o pathSegments(SubSeq(chars, k + 1, Len(chars)))

\* The segments left when "." and empty segments are dropped and ".." takes
\* back the segment before it.
RECURSIVE pathResolve(_, _)
pathResolve(done, segments) ==
    IF segments = <<>> THEN done
    ELSE LET seg == Head(segments)
         IN  IF seg = <<>> \/ seg = <<".">>
             THEN pathResolve(done, Tail(segments))
             ELSE IF seg = <<".", ".">>
             THEN pathResolve(IF done = <<>> THEN done
                              ELSE SubSeq(done, 1, Len(done) - 1),
                              Tail(segments))
             ELSE pathResolve(Append(done, seg), Tail(segments))

RECURSIVE pathGlue(_)
pathGlue(segments) ==
    IF segments = <<>> THEN <<>>
    ELSE IF Len(segments) = 1 THEN segments[1]
    ELSE segments[1] \o <<"/">> \o pathGlue(Tail(segments))

\* server.js:27-28 with multer's disk storage: the file is written at
\* path.join(destination, filename), which normalizes the joined path.  Paths
\* are kept relative to uploads/chunks.
pathJoin(filename) == pathGlue(pathResolve(<<>>, pathSegments(filename)))

\* server.js:30-34: the disk-storage file name of a chunk.
ChunkFileName(uploadId, chunkIndex) == uploadId \o <<"_">> \o chunkIndex

\* Mutant of MapSet: the entry of a key that is present is kept.
MapSetKeepFirst(chunks, index, info) ==
    IF \E i \in 1..Len(chunks) : chunks[i].index = index
    THEN chunks
    ELSE Append(chunks, [index |-> index, path |-> info.path, size |-> info.size])

\* Mutant of MapSet: every attach adds an entry.
MapSetAppend(chunks, index, info) ==
    Append(chunks, [index |-> index, path |-> info.path, size |-> info.size])

\* A Map keeps its keys in insertion order; chunks is the sequence of its
\* entries [index, path, size].  Map.set replaces the value of a key that is
\* present, in place, and appends a new key at the end.
MapSet(chunks, index, info) ==
    LET entry == [index |-> index, path |-> info.path, size |-> info.size]
    IN  IF \E i \in 1..Len(chunks) : chunks[i].index = index
        THEN [i \in 1..Len(chunks) |->
                IF chunks[i].index = index THEN entry ELSE chunks[i]]
        ELSE Append(chunks, entry)

\* Mutant of MapSize: the size is read before the entry is set.
MapSizeBefore(chunks) == Len(chunks) - 1

\* server.js:319  uploadInfo.chunks.size
MapSize(chunks) == Len(chunks)

\* multer's disk storage writes the part to uploads/chunks and then hands the
\* request to the route handler; Node runs the handlers in the order in which
\* the writes ended.  payload is kept beside the request for the history only.
ChunkPersist(uploadId, chunkIndex, payload) ==
    /\ used < MaxRequests
    /\ used' = used + 1
    /\ LET path == pathJoin(ChunkFileName(uploadId, chunkIndex))
       IN  /\ chunksDir' = With(chunksDir, path, [data |-> payload, mtime |-> now])
           /\ chunkReqs' = Append(chunkReqs,
                                  [uploadId |-> uploadId, chunkIndex |-> chunkIndex,
                                   path |-> path, size |-> Len(payload),
                                   payload |-> payload])
    /\ UNCHANGED <<activeUploads, uploadsDir, bucket, now, rand, completeReqs,
                   immediates, lastResp, attached, reaped, b2, batch, calls>>

\* The route handler (server.js:280-320) of the request at the head of the queue.
ChunkHandle ==
    /\ chunkReqs # <<>>
    /\ LET req == Head(chunkReqs)
           parsedIndex == parseInt(req.chunkIndex)
       IN  IF req.uploadId \notin DOMAIN activeUploads
           THEN /\ immediates' = immediates \cup {req.path}
                /\ lastResp' = Resp("chunk", 404, req.uploadId)
                /\ UNCHANGED <<activeUploads, attached>>
           ELSE LET chunks == MapSet(activeUploads[req.uploadId].chunks,
                                     parsedIndex,
                                     [path |-> req.path, size |-> req.size])
                IN  /\ activeUploads' =
                         [activeUploads EXCEPT ![req.uploadId].chunks = chunks]
                    /\ lastResp' = [Resp("chunk", 200, req.uploadId)
                                      EXCEPT !.index = parsedIndex,
                                             !.receivedChunks = MapSize(chunks)]
                    /\ attached' =
                         With(attached, <<req.uploadId, parsedIndex>>,
                              [path |-> req.path, payload |-> req.payload,
                               times |-> IF <<req.uploadId, parsedIndex>>
                                              \in DOMAIN attached
                                         THEN 2 ELSE 1])
                    /\ UNCHANGED immediates
    /\ chunkReqs' = Tail(chunkReqs)
    /\ UNCHANGED <<chunksDir, uploadsDir, bucket, now, rand, completeReqs,
                   used, reaped, b2, batch, calls>>

\* Mutant of ChunkImmediateUnlink: the callback leaves the file.
ChunkImmediateSkip(path) ==
    /\ path \in immediates
    /\ immediates' = immediates \ {path}
    /\ UNCHANGED <<activeUploads, chunksDir, uploadsDir, bucket, now, rand,
                   chunkReqs, completeReqs, lastResp, used, attached, reaped,
                   b2, batch, calls>>

\* The setImmediate callback of server.js:292-299: unlink, errors caught.
ChunkImmediateUnlink(path) ==
    /\ path \in immediates
    /\ immediates' = immediates \ {path}
    /\ chunksDir' = Without(chunksDir, path)
    /\ UNCHANGED <<activeUploads, uploadsDir, bucket, now, rand, chunkReqs,
                   completeReqs, lastResp, used, attached, reaped, b2, batch,
                   calls>>

----------------------------------------------------------------------------
(* POST /upload/complete  (server.js:341-454) *)

\* ([a], [b]) => a - b, which is NaN when an index is NaN; sort reads a
\* comparator result of NaN as 0.
CompareIndex(a, b) == IF a.index.nan \/ b.index.nan THEN 0
                      ELSE a.index.n - b.index.n

\* The entry e put into the sorted sequence s, after the entries it does not
\* precede.
RECURSIVE InsertSorted(_, _)
InsertSorted(s, e) ==
    IF s = <<>> THEN <<e>>
    ELSE IF CompareIndex(s[Len(s)], e) > 0
         THEN Append(InsertSorted(SubSeq(s, 1, Len(s) - 1), e), s[Len(s)])
         ELSE Append(s, e)

RECURSIVE InsertionSort(_)
InsertionSort(s) == IF s = <<>> THEN <<>>
              ELSE InsertSorted(InsertionSort(SubSeq(s, 1, Len(s) - 1)), s[Len(s)])

\* Mutant of SortedChunks: the entries are left in the order of the Map.
UnsortedChunks(chunks) == chunks

\* server.js:354  Array.from(uploadInfo.chunks.entries()).sort(...)
SortedChunks(chunks) == InsertionSort(chunks)

\* server.js:359  `temp_${uploadId}_${Date.now()}.tmp`
TempFileName(uploadId, t) ==
    <<"t", "e", "m", "p", "_">> \o uploadId \o <<"_">> \o ToDecimal(t)
        \o <<".", "t", "m", "p">>

\* The number of leading chunks of the sorted list whose file can be read.
RECURSIVE ReadablePrefix(_, _)
ReadablePrefix(chunks, dir) ==
    IF chunks = <<>> \/ Head(chunks).path \notin DOMAIN dir THEN 0
    ELSE 1 + ReadablePrefix(Tail(chunks), dir)

\* server.js:366-371: the bytes written to the write stream, chunk after chunk
\* of the list, until the list ends or readFileSync throws.
Combine(chunks, dir) ==
    Flatten([i \in 1..ReadablePrefix(chunks, dir) |-> dir[chunks[i].path].data])

\* Mutant of TotalSize: the chunks are counted, not their bytes.
TotalSizeInChunks(chunks, dir) == ReadablePrefix(chunks, dir)

\* server.js:363-369  totalSize += chunkData.length, for each chunk read.
TotalSize(chunks, dir) == Len(Combine(chunks, dir))

\* Mutant of RemoveChunkFiles: the chunk files are left on disk.
KeepChunkFiles(dir, chunks) == dir

\* server.js:406-416: every chunk file of the list that exists is unlinked.
RemoveChunkFiles(dir, chunks) ==
    [f \in (DOMAIN dir) \ {chunks[i].path : i \in 1..Len(chunks)} |-> dir[f]]

\* What the assembly of a session reads: the attaches handled so far and the
\* chunk requests written to disk but not handled yet.  Kept for the history.
RECURSIVE RequestsOf(_, _)
RequestsOf(reqs, uploadId) ==
    IF reqs = <<>> THEN <<>>
    ELSE IF Head(reqs).uploadId = uploadId
         THEN <<Head(reqs)>> \o RequestsOf(Tail(reqs), uploadId)
         ELSE RequestsOf(Tail(reqs), uploadId)

Seen(uploadId) ==
    [attached |-> [k \in {x \in DOMAIN attached : x[1] = uploadId} |-> attached[k]],
     pending |-> RequestsOf(chunkReqs, uploadId)]

\* Mutant of ChunksAfterFailure: the chunk files are unlinked on failure too.
ChunksUnlinkedOnFailure(dir, chunks) ==
    [f \in (DOMAIN dir) \ {chunks[i].path : i \in 1..Len(chunks)} |-> dir[f]]

\* server.js:450-453: the catch block answers 500 and touches no file.
ChunksAfterFailure(dir, chunks) == dir

\* Mutant of CompleteNotFound: the lookup is not checked and the handler fails
\* on the missing session.
CompleteNotFoundAs500(uploadId) ==
    /\ lastResp' = Resp("complete", 500, uploadId)
    /\ UNCHANGED <<uploadsDir, completeReqs>>

\* server.js:346-348: the answer to an upload id that is not in the registry.
CompleteNotFound(uploadId) ==
    /\ lastResp' = Resp("complete", 404, uploadId)
    /\ UNCHANGED <<uploadsDir, completeReqs>>

\* server.js:342-378: look the session up, sort its chunks, write them to the
\* temporary file.  A chunk file that cannot be read ends the request with 500.
CompleteBegin(uploadId) ==
    /\ used < MaxRequests
    /\ used' = used + 1
    /\ IF uploadId \notin DOMAIN activeUploads
       THEN CompleteNotFound(uploadId)
       ELSE LET uploadInfo == activeUploads[uploadId]
                finalKey == ObjectKey(uploadInfo.userId, uploadInfo.fileName)
                chunks == SortedChunks(uploadInfo.chunks)
                tempFilePath == TempFileName(uploadId, now)
                written == Combine(chunks, chunksDir)
            IN  /\ uploadsDir' = With(uploadsDir, tempFilePath,
                                      [data |-> written, mtime |-> now])
                /\ IF ReadablePrefix(chunks, chunksDir) < Len(chunks)
                   THEN /\ lastResp' = Resp("complete", 500, uploadId)
                        /\ UNCHANGED completeReqs
                   ELSE /\ completeReqs' =
                             With(completeReqs, FreeSlot(completeReqs),
                                  [pc |-> "assembled", uploadId |-> uploadId,
                                   uploadInfo |-> uploadInfo,
                                   finalKey |-> finalKey, chunks |-> chunks,
                                   tempFilePath |-> tempFilePath,
                                   totalSize |-> TotalSize(chunks, chunksDir),
                                   body |-> <<>>,
                                   seen |-> Seen(uploadId)])
                        /\ UNCHANGED lastResp
    /\ UNCHANGED <<activeUploads, chunksDir, bucket, now, rand, chunkReqs,
                   immediates, attached, reaped, b2, batch, calls>>

\* server.js:375-378: the write stream reports an error instead of 'finish'.
CompleteStreamError(p) ==
    /\ p \in DOMAIN completeReqs
    /\ completeReqs[p].pc = "assembled"
    /\ completeReqs' = Without(completeReqs, p)
    /\ lastResp' = Resp("complete", 500, completeReqs[p].uploadId)
    /\ UNCHANGED <<activeUploads, chunksDir, uploadsDir, bucket, now, rand,
                   chunkReqs, immediates, used, attached, reaped, b2, batch,
                   calls>>

\* server.js:385 calling b2Upload.js:153-192: uploadFileToB2 stats and reads
\* the temporary file; a missing file makes it throw.
CompleteReadTemp(p) ==
    /\ p \in DOMAIN completeReqs
    /\ completeReqs[p].pc = "assembled"
    /\ LET req == completeReqs[p]
       IN  IF req.tempFilePath \notin DOMAIN uploadsDir
           THEN /\ completeReqs' = Without(completeReqs, p)
                /\ lastResp' = Resp("complete", 500, req.uploadId)
           ELSE /\ completeReqs' =
                     [completeReqs EXCEPT ![p].pc = "uploading",
                                          ![p].body = uploadsDir[req.tempFilePath].data]
                /\ UNCHANGED lastResp
    /\ UNCHANGED <<activeUploads, chunksDir, uploadsDir, bucket, now, rand,
                   chunkReqs, immediates, used, attached, reaped, b2, batch,
                   calls>>

\* Mutant of UnlinkErrorsCaught: an unlink that throws ends the handler in its
\* catch block.
UnlinkErrorsThrown(failing) == failing = {}

\* server.js:393-398, 408-416: each unlinkSync of the cleanup is inside its own
\* try/catch, which logs the error; the handler goes on whatever failed.
UnlinkErrorsCaught(failing) == TRUE

\* server.js:393-416: the paths the cleanup unlinks, numbered 0 (the temporary
\* file) and 1..n (the chunk files of the sorted list); the files left in a
\* directory when the unlinks numbered in failing throw.
CleanupPaths(req) ==
    [k \in 0..Len(req.chunks) |->
        IF k = 0 THEN req.tempFilePath ELSE req.chunks[k].path]

UnlinkFailed(dir, after, paths) ==
    [f \in (DOMAIN after) \cup (paths \cap DOMAIN dir) |-> dir[f]]

\* uploadFileToB2 returns (ok) or throws.  On return the object is stored under
\* finalKey and server.js:392-442 runs: the temporary file and the chunk files
\* of the list are unlinked (the unlinks numbered in failing throw), the
\* session is deleted, the response is sent.
CompleteFinish(p, ok, failing) ==
    /\ p \in DOMAIN completeReqs
    /\ completeReqs[p].pc = "uploading"
    /\ failing \subseteq 0..Len(completeReqs[p].chunks)
    /\ ok \/ failing = {}
    /\ LET req == completeReqs[p]
           kept == {CleanupPaths(req)[k] : k \in failing}
       IN  /\ calls' = Append(calls, [op |-> "uploadFileToB2", key |-> req.finalKey,
                                      ok |-> ok, uploadId |-> req.uploadId,
                                      body |-> req.body, seen |-> req.seen])
           /\ bucket' = IF ok THEN With(bucket, req.finalKey, req.body) ELSE bucket
           /\ IF ok /\ UnlinkErrorsCaught(failing)
              THEN /\ uploadsDir' =
                         UnlinkFailed(uploadsDir,
                                      Without(uploadsDir, req.tempFilePath), kept)
                   /\ chunksDir' =
                         UnlinkFailed(chunksDir,
                                      RemoveChunkFiles(chunksDir, req.chunks), kept)
                   /\ activeUploads' = Without(activeUploads, req.uploadId)
                   /\ lastResp' = [Resp("complete", 200, req.uploadId)
                                     EXCEPT !.fileName = req.uploadInfo.fileName,
                                            !.b2Key = req.finalKey,
                                            !.fileSize = req.totalSize]
              ELSE /\ lastResp' = Resp("complete", 500, req.uploadId)
                   /\ chunksDir' = ChunksAfterFailure(chunksDir, req.chunks)
                   /\ UNCHANGED <<uploadsDir, activeUploads>>
    /\ completeReqs' = Without(completeReqs, p)
    /\ UNCHANGED <<now, rand, chunkReqs, immediates, used, attached, reaped,
                   b2, batch>>

\* The same with every unlink succeeding.
CompleteReturn(p, ok) == CompleteFinish(p, ok, {})

----------------------------------------------------------------------------
(* The cleanup task  (server.js:63-149, 457-465, 777-783) *)

\* Mutant of Expired: a session is expired when its age reaches the timeout.
ExpiredAtTimeout(uploadInfo, t) == t - uploadInfo.createdAt >= uploadSessionTimeout

\* server.js:74  now - uploadInfo.createdAt > CLEANUP_CONFIG.uploadSessionTimeout
Expired(uploadInfo, t) == t - uploadInfo.createdAt > uploadSessionTimeout

\* Mutant of SessionsAfterExpiry: no session is removed.
SessionsAllKept(uploads, t) == uploads

\* server.js:71-92: the sessions left and the chunk files left after the
\* expired sessions are removed.
SessionsAfterExpiry(uploads, t) ==
    [id \in {x \in DOMAIN uploads : ~Expired(uploads[x], t)} |-> uploads[id]]

\* Mutant of ExpiredChunkPaths: the chunks of an expired session are left.
NoChunkPaths(uploads, t) == {}

\* server.js:77-87: the chunk files of the expired sessions.
ExpiredChunkPaths(uploads, t) ==
    UNION {{uploads[id].chunks[i].path : i \in 1..Len(uploads[id].chunks)} :
              id \in {x \in DOMAIN uploads : Expired(uploads[x], t)}}

\* Mutant of FilesAfterAgeSweep: no file is removed for its age.
FilesAllKept(dir, t) == dir

\* server.js:94-138: the files of a directory that are not older than
\* maxChunkAge.
FilesAfterAgeSweep(dir, t) ==
    [f \in {x \in DOMAIN dir : ~(t - dir[x].mtime > maxChunkAge)} |-> dir[f]]

\* Mutant of SweepGoesOn: an unlink that throws while a session is expired
\* ends the run in the outer catch.
SweepStopsOnError(failing) == failing = {}

\* server.js:78-87: the unlink of each chunk of an expired session is inside
\* its own try/catch, which logs the error; the loops go on.
SweepGoesOn(failing) == TRUE

\* One run of the cleanup task; the unlinks of the paths in failing throw.
cleanupSweep(failing) ==
    /\ failing \subseteq (DOMAIN chunksDir) \cup (DOMAIN uploadsDir)
    /\ IF SweepGoesOn(failing \cap ExpiredChunkPaths(activeUploads, now))
       THEN /\ activeUploads' = SessionsAfterExpiry(activeUploads, now)
            /\ chunksDir' =
                 UnlinkFailed(chunksDir,
                    FilesAfterAgeSweep(
                       [f \in (DOMAIN chunksDir) \ ExpiredChunkPaths(activeUploads, now)
                           |-> chunksDir[f]], now),
                    failing)
            /\ uploadsDir' =
                 UnlinkFailed(uploadsDir, FilesAfterAgeSweep(uploadsDir, now),
                              failing)
            /\ reaped' = reaped \cup {id \in DOMAIN activeUploads :
                                          Expired(activeUploads[id], now)}
       ELSE /\ chunksDir' =
                 [f \in (DOMAIN chunksDir)
                         \ (ExpiredChunkPaths(activeUploads, now) \ failing)
                     |-> chunksDir[f]]
            /\ UNCHANGED <<activeUploads, uploadsDir, reaped>>
    /\ UNCHANGED <<bucket, now, rand, chunkReqs, completeReqs, immediates,
                   lastResp, used, attached, b2, batch, calls>>

\* The same with every unlink succeeding.
cleanupOrphanedChunks == cleanupSweep({})

\* server.js:789-801: the chunk files the sessions of the registry refer to.
ReferencedChunkPaths(uploads) ==
    UNION {{uploads[id].chunks[i].path : i \in 1..Len(uploads[id].chunks)} :
              id \in DOMAIN uploads}

\* Mutant of SessionsAfterSignal: the handler empties the registry.
SessionsCleared(uploads) == EmptyMap

\* server.js:786-807: the SIGTERM handler reads activeUploads and writes
\* nothing to it.
SessionsAfterSignal(uploads) == uploads

\* server.js:786-813: SIGTERM, or SIGINT whose handler emits SIGTERM.  Every
\* chunk file a session refers to is unlinked (the unlinks of the paths in
\* failing throw and are logged); server.close then lets the requests under
\* way end.
Sigterm(failing) ==
    /\ failing \subseteq DOMAIN chunksDir
    /\ activeUploads' = SessionsAfterSignal(activeUploads)
    /\ chunksDir' =
         UnlinkFailed(chunksDir,
                      [f \in (DOMAIN chunksDir) \ ReferencedChunkPaths(activeUploads)
                          |-> chunksDir[f]],
                      failing)
    /\ UNCHANGED <<uploadsDir, bucket, now, rand, chunkReqs, completeReqs,
                   immediates, lastResp, used, attached, reaped, b2, batch, calls>>

\* Time passes.  The clock is read at the instants the two thresholds tell
\* apart for what was created at time 0: one hour after each threshold.
Instants == {maxChunkAge + 1, uploadSessionTimeout + 1}

Tick(t) ==
    /\ t > now
    /\ now' = t
    /\ UNCHANGED <<activeUploads, chunksDir, uploadsDir, bucket, rand, chunkReqs,
                   completeReqs, immediates, lastResp, used, attached, reaped,
                   b2, batch, calls>>

----------------------------------------------------------------------------
(* The server: Spec. *)

\* What the requests of the model carry.
FileNames == {Undefined, Str(<<"a", ".", "t">>)}
FileSizes == {Number(4)}
UserIds == {Undefined}
ChunkIndexes == {<<"0">>, <<"1">>}

\* The payload of the k-th request of a run: payloads differ from request to
\* request, in content and in length.
Payload(k) == IF k % 2 = 1 THEN <<k>> ELSE <<k, k>>

\* The upload ids a client can name: those init has returned so far, and one
\* it never returned.  Each init makes two draws, the first for the id.
IssuedIds == {ToHex(2 * k) : k \in 0..((rand \div 2) - 1)}
RequestIds == IssuedIds \cup {UnknownId}
ChunkTargets == IssuedIds \X ChunkIndexes

Init ==
    /\ activeUploads = EmptyMap
    /\ chunksDir = EmptyMap
    /\ uploadsDir = EmptyMap
    /\ bucket = EmptyMap
    /\ now = 0
    /\ rand = 0
    /\ chunkReqs = <<>>
    /\ completeReqs = EmptyMap
    /\ immediates = {}
    /\ lastResp = NoResp
    /\ used = 0
    /\ attached = EmptyMap
    /\ reaped = {}
    /\ b2 = EmptyMap
    /\ batch = EmptyMap
    /\ calls = <<>>

Next ==
    \/ \E f \in FileNames, z \in FileSizes, u \in UserIds : UploadInit(f, z, u)
    \/ \E t \in ChunkTargets :
          ChunkPersist(t[1], t[2], Payload(used + 1))
    \/ ChunkHandle
    \/ \E f \in immediates : ChunkImmediateUnlink(f)
    \/ \E id \in RequestIds : CompleteBegin(id)
    \/ \E p \in DOMAIN completeReqs : CompleteStreamError(p)
    \/ \E p \in DOMAIN completeReqs : CompleteReadTemp(p)
    \/ \E p \in DOMAIN completeReqs, ok \in BOOLEAN : CompleteReturn(p, ok)
    \/ cleanupOrphanedChunks
    \/ \E t \in Instants : Tick(t)

Spec == Init /\ [][Next]_vars

\* The server when no client calls complete: sessions are only created, fed
\* and cleaned up.
NextAbandoned ==
    \/ \E f \in FileNames, z \in FileSizes, u \in UserIds : UploadInit(f, z, u)
    \/ \E t \in ChunkTargets :
          ChunkPersist(t[1], t[2], Payload(used + 1))
    \/ ChunkHandle
    \/ \E f \in immediates : ChunkImmediateUnlink(f)
    \/ cleanupOrphanedChunks
    \/ \E t \in Instants : Tick(t)

\* server.js:148, 782: setInterval runs the cleanup task every hour for as long
\* as the process lives, after the run setTimeout starts five seconds after
\* listen; a run that has something to remove is therefore not put off for ever.
SpecTimers == Init /\ [][NextAbandoned]_vars /\ WF_vars(cleanupOrphanedChunks)

\* The server when the clients send no chunk: sessions are created and
\* completed, the uploads failing or not, and the timers of the cleanup task
\* (server.js:148, 782) keep it running.
NextTemp ==
    \/ \E f \in FileNames, z \in FileSizes, u \in UserIds : UploadInit(f, z, u)
    \/ \E id \in RequestIds : CompleteBegin(id)
    \/ \E p \in DOMAIN completeReqs : CompleteStreamError(p)
    \/ \E p \in DOMAIN completeReqs : CompleteReadTemp(p)
    \/ \E p \in DOMAIN completeReqs, ok \in BOOLEAN : CompleteReturn(p, ok)
    \/ cleanupOrphanedChunks
    \/ \E t \in Instants : Tick(t)

SpecTemp == Init /\ [][NextTemp]_vars /\ WF_vars(cleanupOrphanedChunks)

\* The server with the cleanup task at rest and with unlinks that may throw
\* (EPERM, EBUSY, a file removed by another process) in the complete handler.
NextUnlink ==
    \/ \E f \in FileNames, z \in FileSizes, u \in UserIds : UploadInit(f, z, u)
    \/ \E t \in ChunkTargets :
          ChunkPersist(t[1], t[2], Payload(used + 1))
    \/ ChunkHandle
    \/ \E f \in immediates : ChunkImmediateUnlink(f)
    \/ \E id \in RequestIds : CompleteBegin(id)
    \/ \E p \in DOMAIN completeReqs : CompleteStreamError(p)
    \/ \E p \in DOMAIN completeReqs : CompleteReadTemp(p)
    \/ \E p \in DOMAIN completeReqs, ok \in BOOLEAN,
          failing \in SUBSET (0..Cardinality(ChunkIndexes)) :
             CompleteFinish(p, ok, failing)

SpecUnlink == Init /\ [][NextUnlink]_vars

\* The instants of the clock, with the one at which what was created at time 0
\* is exactly as old as the session timeout.
SweepInstants == Instants \cup {uploadSessionTimeout}

\* The server when no client calls complete and the unlinks of the cleanup task
\* may throw.
NextSweep ==
    \/ \E f \in FileNames, z \in FileSizes, u \in UserIds : UploadInit(f, z, u)
    \/ \E t \in ChunkTargets :
          ChunkPersist(t[1], t[2], Payload(used + 1))
    \/ ChunkHandle
    \/ \E f \in immediates : ChunkImmediateUnlink(f)
    \/ \E failing \in SUBSET (DOMAIN chunksDir) : cleanupSweep(failing)
    \/ \E t \in SweepInstants : Tick(t)

SpecSweep == Init /\ [][NextSweep]_vars

\* The init and chunk routes of a server that receives termination signals.
NextSignal ==
    \/ \E f \in FileNames, z \in FileSizes, u \in UserIds : UploadInit(f, z, u)
    \/ \E t \in ChunkTargets :
          ChunkPersist(t[1], t[2], Payload(used + 1))
    \/ ChunkHandle
    \/ \E failing \in SUBSET (DOMAIN chunksDir) : Sigterm(failing)

SpecSignal == Init /\ [][NextSignal]_vars

\* The init and chunk routes with the chunkIndex fields a client may send: an
\* index, a negative number, a word, no field at all, and an index followed by
\* a relative path.
AnyChunkIndexes == {<<"0">>, <<"-", "1">>, <<"x">>, StringOf(Undefined),
                    <<"1", "/", ".", ".", "/", "0", "_", "0">>}

NextChunk ==
    \/ \E f \in FileNames, z \in FileSizes, u \in UserIds : UploadInit(f, z, u)
    \/ \E id \in RequestIds, ci \in AnyChunkIndexes :
          ChunkPersist(id, ci, Payload(used + 1))
    \/ ChunkHandle
    \/ \E f \in immediates : ChunkImmediateUnlink(f)

SpecChunk == Init /\ [][NextChunk]_vars

----------------------------------------------------------------------------
(* POST /upload/init alone, over more request bodies: SpecInit. *)

InitFileNames == {Undefined, Str(<<"a", ".", "t">>), Str(<<"a">>), Number(7)}
InitFileSizes == {Undefined, Number(0), Number(4)}
InitUserIds == {Undefined, Str(<<"u">>)}

NextInit ==
    \/ \E f \in InitFileNames, z \in InitFileSizes, u \in InitUserIds :
          UploadInit(f, z, u)
    \/ \E t \in Instants : Tick(t)

SpecInit == Init /\ [][NextInit]_vars

----------------------------------------------------------------------------
(* uploadFileToB2  (b2Upload.js:153-251), and the object store it talks to. *)

\* The otherVars of the specifications that do not run the server.
idleServer == <<activeUploads, chunksDir, uploadsDir, now, rand, chunkReqs,
                completeReqs, immediates, lastResp, used, attached, reaped>>

InitIdleServer ==
    /\ activeUploads = EmptyMap
    /\ chunksDir = EmptyMap
    /\ uploadsDir = EmptyMap
    /\ now = 0
    /\ rand = 0
    /\ chunkReqs = <<>>
    /\ completeReqs = EmptyMap
    /\ immediates = {}
    /\ lastResp = NoResp
    /\ used = 0
    /\ attached = EmptyMap
    /\ reaped = {}

\* The tag the store returns for the bytes of a part or of an object.
ETag(bytes) == [md5 |-> bytes]

\* Mutant of PartCount: the division is rounded down.
PartCountFloor(fileSize) == fileSize \div partSize

\* b2Upload.js:193  Math.ceil(fileSize / partSize)
PartCount(fileSize) == (fileSize + partSize - 1) \div partSize

\* b2Upload.js:200-202  fileBuffer.slice(start, end) of part i (0-based).
PartBuffer(fileBuffer, fileSize, i) ==
    LET start == i * partSize
        end == Min(start + partSize, fileSize)
    IN  SubSeq(fileBuffer, start + 1, Min(end, Len(fileBuffer)))

\* Mutant of SortParts: the list is sent in the order the parts ended.
UnsortedParts(parts) == parts

\* b2Upload.js:234  uploadedParts.sort((a, b) => a.PartNumber - b.PartNumber)
RECURSIVE SortParts(_)
SortParts(parts) ==
    IF parts = <<>> THEN <<>>
    ELSE LET rest == SortParts(SubSeq(parts, 1, Len(parts) - 1))
             x == parts[Len(parts)]
             k == Cardinality({i \in 1..Len(rest) :
                                  rest[i].PartNumber - x.PartNumber <= 0})
         IN  SubSeq(rest, 1, k) \o <<x>> \o SubSeq(rest, k + 1, Len(rest))

\* Mutant of PromiseAll: the wait ends when every part upload has ended, failed
\* or not, and never rejects (Promise.allSettled).
PromiseAllSettled(job) ==
    IF job.inflight = {} THEN "fulfilled" ELSE "pending"

\* b2Upload.js:226  Promise.all(uploadPromises): rejected as soon as one part
\* upload has failed, fulfilled when every part upload has answered.
PromiseAll(job) ==
    IF job.failedParts # {} THEN "rejected"
    ELSE IF job.inflight = {} THEN "fulfilled" ELSE "pending"

\* CompleteMultipartUpload in the store: the listed parts must have been
\* uploaded with the listed tags and be listed in ascending part-number
\* order; the object is then the listed parts, concatenated.
ListAccepted(upload, parts) ==
    /\ parts # <<>>
    /\ \A i \in 1..Len(parts) :
          /\ parts[i].PartNumber \in DOMAIN upload.parts
          /\ parts[i].ETag = ETag(upload.parts[parts[i].PartNumber])
    /\ \A i \in 1..(Len(parts) - 1) :
          parts[i].PartNumber < parts[i + 1].PartNumber

ObjectOfParts(upload, parts) ==
    Flatten([i \in 1..Len(parts) |-> upload.parts[parts[i].PartNumber]])

NoJob == [pc |-> "none", key |-> <<>>, fileBuffer |-> <<>>, fileSize |-> 0,
          uploadId |-> 0, partCount |-> 0, inflight |-> {}, failedParts |-> {},
          endOrder |-> <<>>, uploadedParts |-> <<>>, result |-> "pending",
          store |-> EmptyMap]

\* The file of n MiB handed to the upload: every byte differs from the others.
FileOfSize(n) == [i \in 1..n |-> i]

B2Key == <<"u", "/", "k">>

\* Mutant of UseSingleUpload: a file of exactly the limit goes multipart.
UseSingleUploadBelow(fileSize) == fileSize < singleUploadLimit

\* b2Upload.js:158  fileSize <= 5 * 1024 * 1024, fileSize being the size
\* fs.statSync reports for the file on disk (b2Upload.js:156).
UseSingleUpload(fileSize) == fileSize <= singleUploadLimit

\* b2Upload.js:156-168 (single upload) and 156-189 (multipart): the file is
\* stat'ed; up to the limit it is read and put, the put answering ok or failing;
\* above it a multipart upload is created, which answers ok or fails.
B2Start(ok) ==
    /\ b2.pc = "start"
    /\ IF UseSingleUpload(b2.fileSize)
       THEN /\ calls' = Append(calls, [op |-> "PutObject", uploadId |-> 0,
                                       partNumber |-> 0, parts |-> <<>>])
            /\ bucket' = IF ok THEN With(bucket, b2.key, b2.fileBuffer) ELSE bucket
            /\ b2' = [b2 EXCEPT !.pc = "done",
                                !.result = IF ok THEN "ok" ELSE "throw"]
       ELSE /\ calls' = Append(calls, [op |-> "CreateMultipartUpload",
                                       uploadId |-> 0, partNumber |-> 0,
                                       parts |-> <<>>])
            /\ bucket' = bucket
            /\ b2' = IF ok
                     THEN [b2 EXCEPT !.pc = "created", !.uploadId = 1,
                                     !.store = With(b2.store, 1,
                                                    [key |-> b2.key,
                                                     parts |-> EmptyMap,
                                                     status |-> "open"])]
                     ELSE [b2 EXCEPT !.pc = "done", !.result = "throw"]
    /\ UNCHANGED <<idleServer, batch>>

\* b2Upload.js:192-223: the file is read and every part upload is sent, one
\* after the other without waiting.
B2SendParts ==
    /\ b2.pc = "created"
    /\ LET partCount == PartCount(b2.fileSize)
       IN  /\ b2' = [b2 EXCEPT !.pc = "waiting", !.partCount = partCount,
                               !.inflight = 1..partCount]
           /\ calls' = calls \o [i \in 1..partCount |->
                                   [op |-> "UploadPart", uploadId |-> b2.uploadId,
                                    partNumber |-> i, parts |-> <<>>]]
    /\ UNCHANGED <<idleServer, bucket, batch>>

\* b2Upload.js:192-202: the bytes of the file held in memory by the upload.
\* fs.promises.readFile returns the whole file as one Buffer; the part bodies
\* are slices of it, so it stays allocated while a part upload is in flight or
\* the function has not returned.
ResidentBytes ==
    IF b2.pc \in {"waiting", "completing"} \/ b2.inflight # {}
    THEN Len(b2.fileBuffer) ELSE 0

\* b2Upload.js:214-221: the upload of part n ends.  When it answers, the store
\* holds the part and the .then callback records its number and tag; when it
\* fails, Promise.all rejects and uploadFileToB2 throws (b2Upload.js:247-250),
\* the other part uploads going on.
B2PartEnds(n, ok) ==
    /\ n \in b2.inflight
    /\ LET bytes == PartBuffer(b2.fileBuffer, b2.fileSize, n - 1)
           job == IF ok
                  THEN [b2 EXCEPT
                           !.inflight = @ \ {n},
                           !.endOrder = Append(@, n),
                           !.uploadedParts =
                               Append(@, [PartNumber |-> n, ETag |-> ETag(bytes)]),
                           !.store[b2.uploadId].parts = With(@, n, bytes)]
                  ELSE [b2 EXCEPT
                           !.inflight = @ \ {n},
                           !.endOrder = Append(@, n),
                           !.failedParts = @ \cup {n}]
       IN  b2' = IF b2.pc = "waiting" /\ PromiseAll(job) = "rejected"
                 THEN [job EXCEPT !.pc = "done", !.result = "throw"]
                 ELSE job
    /\ UNCHANGED <<idleServer, bucket, batch, calls>>

\* b2Upload.js:226-238: the wait for the parts is over; the recorded parts are
\* sorted and the completion call is sent.
B2SendComplete ==
    /\ b2.pc = "waiting"
    /\ PromiseAll(b2) = "fulfilled"
    /\ LET parts == SortParts(b2.uploadedParts)
       IN  /\ b2' = [b2 EXCEPT !.pc = "completing", !.uploadedParts = parts]
           /\ calls' = Append(calls, [op |-> "CompleteMultipartUpload",
                                      uploadId |-> b2.uploadId, partNumber |-> 0,
                                      parts |-> parts])
    /\ UNCHANGED <<idleServer, bucket, batch>>

\* b2Upload.js:238-245: the completion call answers (the store accepting the
\* list and storing the object) or fails.
B2CompleteEnds(ok) ==
    /\ b2.pc = "completing"
    /\ LET upload == b2.store[b2.uploadId]
       IN  IF ok /\ ListAccepted(upload, b2.uploadedParts)
           THEN /\ bucket' = With(bucket, upload.key,
                                  ObjectOfParts(upload, b2.uploadedParts))
                /\ b2' = [b2 EXCEPT !.pc = "done", !.result = "ok",
                                    !.store[b2.uploadId].status = "completed"]
           ELSE /\ bucket' = bucket
                /\ b2' = [b2 EXCEPT !.pc = "done", !.result = "throw"]
    /\ UNCHANGED <<idleServer, batch, calls>>

InitB2 ==
    /\ InitIdleServer
    /\ bucket = EmptyMap
    /\ batch = EmptyMap
    /\ calls = <<>>
    /\ \E n \in 0..MaxFileSize :
          b2 = [NoJob EXCEPT !.pc = "start", !.key = B2Key,
                             !.fileBuffer = FileOfSize(n), !.fileSize = n]

NextB2 ==
    \/ \E ok \in BOOLEAN : B2Start(ok)
    \/ B2SendParts
    \/ \E n \in 1..PartCount(MaxFileSize), ok \in BOOLEAN : B2PartEnds(n, ok)
    \/ B2SendComplete
    \/ \E ok \in BOOLEAN : B2CompleteEnds(ok)

SpecB2 == InitB2 /\ [][NextB2]_vars

----------------------------------------------------------------------------
(* Key resolution: uploadFilesToB2 (b2Upload.js:41-143) and POST /upload
   (server.js:540-700).  batch is one call: its files, each with the position
   of its task, the files on the local disk, and what the call returned. *)

UserU == <<"u">>

\* Mutant of SuffixedName: the suffix is put after the extension.
SuffixAfterExtension(candidate, suffix) ==
    candidate \o <<"_">> \o ToDecimal(suffix)

\* b2Upload.js:68, server.js:586-587  `${basename}_${suffix}${extension}`
SuffixedName(candidate, suffix) ==
    pathParse(candidate).name \o <<"_">> \o ToDecimal(suffix)
        \o pathParse(candidate).ext

\* server.js:607  temp_${crypto.randomBytes(8).toString('hex')}.tmp, of file i
LegacyTempPath(i) == <<"temp", i>>

\* multer's file.path of file i
MulterPath(i) == <<"file", i>>

\* server.js:558  the files of a request are handled one after the other;
\* b2Upload.js:46  the files of a call are handled together.
Turn(i) ==
    \/ batch.kind = "uploadFilesToB2"
    \/ \A j \in 1..(i - 1) : batch.tasks[j].pc = "done"

\* Mutant of ProbeGoesOn: only NotFound ends the loop; after another error the
\* next name is tried.
ProbeGoesOnUnlessNotFound(exists, failure) == exists \/ failure

\* b2Upload.js:61-76, server.js:578-596: the loop goes on when HeadObject
\* answers; both branches of the catch break.
ProbeGoesOn(exists, failure) == exists /\ ~failure

\* b2Upload.js:58-77, server.js:575-597: one round of the loop.  The
\* HeadObject of the current key answers that the object exists (the name gets
\* the next suffix and the loop goes on), or answers NotFound, or fails with
\* another error (either way the loop ends with the current name).
\* server.js:599-617: POST /upload then reads the file, writes the temporary
\* copy and calls uploadFileToB2.
KeyProbe(i, failure) ==
    /\ i \in 1..Len(batch.tasks)
    /\ batch.tasks[i].pc = "probe"
    /\ Turn(i)
    /\ LET task == batch.tasks[i]
           b2Key == ObjectKey(batch.userId, task.b2Filename)
           exists == b2Key \in DOMAIN bucket
       IN  IF ProbeGoesOn(exists, failure)
           THEN batch' = [batch EXCEPT
                    !.tasks[i].b2Filename = SuffixedName(task.candidate, task.suffix),
                    !.tasks[i].suffix = @ + 1,
                    !.tasks[i].probes = @ + 1]
           ELSE batch' = [batch EXCEPT
                    !.tasks[i].pc = IF batch.kind = "legacy" THEN "put" ELSE "read",
                    !.tasks[i].probes = @ + 1,
                    !.tasks[i].probeFailed = failure,
                    !.tasks[i].quiet = (bucket = task.seen),
                    !.tasks[i].fileData =
                        IF batch.kind = "legacy" THEN task.data ELSE @,
                    !.tmp = IF batch.kind = "legacy"
                            THEN @ \cup {LegacyTempPath(i)} ELSE @]
    /\ UNCHANGED <<idleServer, bucket, b2, calls>>

\* b2Upload.js:80-81  fs.promises.readFile(file.path) answers.
KeyRead(i) ==
    /\ i \in 1..Len(batch.tasks)
    /\ batch.tasks[i].pc = "read"
    /\ batch' = [batch EXCEPT !.tasks[i].pc = "put",
                              !.tasks[i].fileData = batch.tasks[i].data]
    /\ UNCHANGED <<idleServer, bucket, b2, calls>>

\* b2Upload.js:96-113, server.js:639-660: what is recorded for a file.  The
\* path tells the files of a call apart.
Outcome(i, task, ok) ==
    [path |-> MulterPath(i), success |-> ok, fileName |-> task.originalname,
     finalFileName |-> IF ok THEN task.b2Filename ELSE <<>>]

\* Mutant of Separate: the failures are not collected.
SeparateLosingErrors(uploadResults, flag) ==
    IF flag THEN SelectSeq(uploadResults, LAMBDA r : r.success) ELSE <<>>

\* b2Upload.js:121-127: the results of one kind, in the order of the files.
Separate(uploadResults, flag) ==
    SelectSeq(uploadResults, LAMBDA r : r.success = flag)

\* Mutant of LegacyCleanup: the two files are removed after a successful
\* upload only.
LegacyCleanupOnSuccess(tmp, i, ok) ==
    IF ok THEN tmp \ {LegacyTempPath(i), MulterPath(i)} ELSE tmp

\* server.js:617-624, 661-670: the finally blocks of POST /upload unlink the
\* temporary copy and the received file of file i, the upload having returned
\* or thrown.
LegacyCleanup(tmp, i, ok) == tmp \ {LegacyTempPath(i), MulterPath(i)}

\* b2Upload.js:84-114: the PutObject under the final key answers or fails.
\* server.js:610-670: uploadFileToB2 returns or throws; the temporary copy and
\* the file are removed and the next file of the request starts.
KeyPut(i, ok) ==
    /\ i \in 1..Len(batch.tasks)
    /\ batch.tasks[i].pc = "put"
    /\ LET task == batch.tasks[i]
           finalKey == ObjectKey(batch.userId, task.b2Filename)
           stored == IF ok THEN With(bucket, finalKey, task.fileData) ELSE bucket
           legacy == batch.kind = "legacy"
       IN  /\ bucket' = stored
           /\ calls' = Append(calls, [op |-> "PutObject", key |-> finalKey, ok |-> ok])
           /\ batch' = [batch EXCEPT
                  !.tasks = [j \in 1..Len(batch.tasks) |->
                      IF j = i
                      THEN [task EXCEPT !.pc = "done", !.success = ok,
                                        !.overwrote = ok /\ finalKey \in DOMAIN bucket]
                      ELSE IF legacy /\ j = i + 1
                      THEN [batch.tasks[j] EXCEPT !.seen = stored]
                      ELSE batch.tasks[j]],
                  !.results = IF legacy /\ ok
                              THEN Append(@, Outcome(i, task, ok)) ELSE @,
                  !.errors = IF legacy /\ ~ok
                             THEN Append(@, Outcome(i, task, ok)) ELSE @,
                  !.tmp = IF legacy THEN LegacyCleanup(@, i, ok) ELSE @]
    /\ UNCHANGED <<idleServer, b2>>

\* b2Upload.js:118-142, server.js:673-700: every file has been handled; the
\* results and the errors are told apart, uploadFilesToB2 removes the files.
KeyReturn ==
    /\ batch.returned = FALSE
    /\ \A i \in 1..Len(batch.tasks) : batch.tasks[i].pc = "done"
    /\ LET uploadResults ==
               [i \in 1..Len(batch.tasks) |->
                   Outcome(i, batch.tasks[i], batch.tasks[i].success)]
       IN  batch' = IF batch.kind = "legacy"
                    THEN [batch EXCEPT !.returned = TRUE]
                    ELSE [batch EXCEPT !.returned = TRUE,
                                       !.results = Separate(uploadResults, TRUE),
                                       !.errors = Separate(uploadResults, FALSE),
                                       !.tmp = {}]
    /\ UNCHANGED <<idleServer, bucket, b2, calls>>

\* The names of the files sent, the random tokens drawn for them, and the keys
\* the bucket may hold before the call.
OriginalNames == {<<"a", ".", "t">>, <<"a">>}
Tokens == {<<"a">>, <<"b">>}
KeysBefore == {ObjectKey(UserU, <<"a", ".", "t">>),
               ObjectKey(UserU, <<"a", "_", "1", ".", "t">>)}

NewTask(i, originalname, candidate, seen) ==
    [originalname |-> originalname, path |-> MulterPath(i), data |-> <<i>>,
     candidate |-> candidate, b2Filename |-> candidate, suffix |-> 1,
     pc |-> "probe", probes |-> 0, probeFailed |-> FALSE, quiet |-> FALSE,
     seen |-> seen, fileData |-> <<>>, success |-> FALSE, overwrote |-> FALSE]

InitKeys ==
    /\ InitIdleServer
    /\ b2 = EmptyMap
    /\ calls = <<>>
    /\ \E keys \in SUBSET KeysBefore : bucket = [k \in keys |-> <<0>>]
    /\ \E n \in 1..MaxFiles, kind \in {"uploadFilesToB2", "legacy"} :
       \E names \in [1..n -> OriginalNames], tokens \in [1..n -> Tokens] :
          /\ kind = "uploadFilesToB2" => \A i \in 1..n : tokens[i] = <<"a">>
          /\ batch = [kind |-> kind, userId |-> UserU,
                      tasks |-> [i \in 1..n |->
                          NewTask(i, names[i],
                                  IF kind = "legacy"
                                  THEN generateRandomFilename(names[i], tokens[i])
                                  ELSE names[i],
                                  bucket)],
                      tmp |-> {MulterPath(i) : i \in 1..n},
                      returned |-> FALSE, results |-> <<>>, errors |-> <<>>]

NextKeys ==
    \/ \E i \in 1..MaxFiles, failure \in BOOLEAN : KeyProbe(i, failure)
    \/ \E i \in 1..MaxFiles : KeyRead(i)
    \/ \E i \in 1..MaxFiles, ok \in BOOLEAN : KeyPut(i, ok)
    \/ KeyReturn

SpecKeys == InitKeys /\ [][NextKeys]_vars

----------------------------------------------------------------------------
(* Claims about the chunked protocol, checked under Spec. *)

Indexes(chunks) == {chunks[i].index : i \in 1..Len(chunks)}

\* The map entry of a session for the index k.
EntryAt(chunks, index) == CHOOSE e \in Range(chunks) : e.index = index

\* The chunk calls of the session cover the indexes 0..n-1, n >= 1.
CoversPrefix(chunks) ==
    /\ chunks # <<>>
    /\ Indexes(chunks) = {Num(k) : k \in 0..(Len(chunks) - 1)}

\* Every chunk file the session refers to is on disk, and no chunk call for the
\* session is still on its way to the route handler.
Settled(id) ==
    /\ \A i \in 1..Len(activeUploads[id].chunks) :
          activeUploads[id].chunks[i].path \in DOMAIN chunksDir
    /\ \A i \in 1..Len(chunkReqs) : chunkReqs[i].uploadId # id

\* The payloads the chunk calls carried for the indexes 0..n-1, in that order.
PayloadsOfPrefix(id, n) ==
    Flatten([k \in 1..n |-> attached[<<id, Num(k - 1)>>].payload])

\* C1: for a session whose chunk calls cover the indexes 0..n-1, in whatever
\* order they arrived, the temporary file complete assembles holds the payloads
\* of the chunk calls concatenated in ascending index order.
C1_AssembledInIndexOrder ==
    [][\A id \in DOMAIN activeUploads :
          (/\ CompleteBegin(id)
           /\ CoversPrefix(activeUploads[id].chunks)
           /\ Settled(id))
          => /\ TempFileName(id, now) \in DOMAIN uploadsDir'
             /\ uploadsDir'[TempFileName(id, now)].data =
                   PayloadsOfPrefix(id, Len(activeUploads[id].chunks))
             /\ \E p \in DOMAIN completeReqs' :
                   /\ p \notin DOMAIN completeReqs
                   /\ completeReqs'[p].totalSize =
                         Len(PayloadsOfPrefix(id, Len(activeUploads[id].chunks)))]_vars

\* A complete call has assembled a session whose chunks 0 and 1 arrived in the
\* order 1, 0.
C1_Witness ==
    \E p \in DOMAIN completeReqs :
        LET req == completeReqs[p]
        IN  /\ req.pc = "assembled"
            /\ Len(req.chunks) = 2
            /\ Len(req.uploadInfo.chunks) = 2
            /\ req.uploadInfo.chunks[1].index = Num(1)
            /\ req.uploadInfo.chunks[2].index = Num(0)
            /\ req.tempFilePath \in DOMAIN uploadsDir
            /\ uploadsDir[req.tempFilePath].data =
                  attached[<<req.uploadId, Num(0)>>].payload
                     \o attached[<<req.uploadId, Num(1)>>].payload

\* The indexes of a set in ascending order.
RECURSIVE Ascending(_)
Ascending(S) ==
    IF S = {} THEN <<>>
    ELSE LET least == CHOOSE x \in S : \A y \in S : x.n <= y.n
         IN  <<least>> \o Ascending(S \ {least})

\* The last payload attached under each index of the session, by ascending index.
LastPayloads(id) ==
    LET order == Ascending(Indexes(activeUploads[id].chunks))
    IN  Flatten([k \in 1..Len(order) |-> attached[<<id, order[k]>>].payload])

\* C2: an attach under an index the session already holds replaces that entry
\* of the chunk map and adds none; a later assembly holds, for each index, the
\* payload of the last attach only.
C2_LastAttachWins ==
    [][/\ (/\ ChunkHandle
           /\ Head(chunkReqs).uploadId \in DOMAIN activeUploads
           /\ parseInt(Head(chunkReqs).chunkIndex)
                 \in Indexes(activeUploads[Head(chunkReqs).uploadId].chunks))
          => LET req == Head(chunkReqs)
                 before == activeUploads[req.uploadId].chunks
                 after == activeUploads'[req.uploadId].chunks
             IN  /\ Len(after) = Len(before)
                 /\ \A i \in 1..Len(before) :
                       after[i] = IF before[i].index = parseInt(req.chunkIndex)
                                  THEN [index |-> parseInt(req.chunkIndex),
                                        path |-> req.path, size |-> req.size]
                                  ELSE before[i]
       /\ \A id \in DOMAIN activeUploads :
             (/\ CompleteBegin(id)
              /\ \A x \in Indexes(activeUploads[id].chunks) : ~x.nan
              /\ Settled(id))
             => /\ TempFileName(id, now) \in DOMAIN uploadsDir'
                /\ uploadsDir'[TempFileName(id, now)].data = LastPayloads(id)]_vars

\* A complete call has assembled a session in which an index was attached
\* twice, and the temporary file holds the second payload.
C2_Witness ==
    \E p \in DOMAIN completeReqs :
        LET req == completeReqs[p]
        IN  /\ req.pc = "assembled"
            /\ Len(req.chunks) = 1
            /\ attached[<<req.uploadId, req.chunks[1].index>>].times = 2
            /\ req.tempFilePath \in DOMAIN uploadsDir
            /\ uploadsDir[req.tempFilePath].data =
                  attached[<<req.uploadId, req.chunks[1].index>>].payload

\* C3: a complete call whose upload id is not in the registry (never issued,
\* expired, or already completed) is answered 404, goes no further and makes
\* no call to the object store.
C3_CompleteUnknownSession ==
    [][\A id \in RequestIds :
          (CompleteBegin(id) /\ id \notin DOMAIN activeUploads)
          => /\ lastResp' = Resp("complete", 404, id)
             /\ completeReqs' = completeReqs
             /\ calls' = calls
             /\ bucket' = bucket]_vars

\* A complete call for a session the cleanup task had expired was answered 404.
C3_Witness ==
    /\ lastResp.route = "complete"
    /\ lastResp.status = 404
    /\ lastResp.uploadId \in reaped

\* C4: a cleanup run removes every session older than uploadSessionTimeout from
\* the registry and deletes every chunk file those sessions referred to; a
\* session once expired stays absent, and a chunk or complete call naming it is
\* answered 404.
C4_ReaperExpiresSessions ==
    [][/\ cleanupOrphanedChunks
          => \A id \in DOMAIN activeUploads :
                now - activeUploads[id].createdAt > uploadSessionTimeout
                => /\ id \notin DOMAIN activeUploads'
                   /\ \A i \in 1..Len(activeUploads[id].chunks) :
                         activeUploads[id].chunks[i].path \notin DOMAIN chunksDir'
       /\ \A id \in reaped :
             /\ id \notin DOMAIN activeUploads'
             /\ CompleteBegin(id) => lastResp' = Resp("complete", 404, id)
             /\ (ChunkHandle /\ Head(chunkReqs).uploadId = id)
                   => lastResp' = Resp("chunk", 404, id)]_vars

\* A chunk call for an expired session was answered 404; the session had
\* chunks when the cleanup task removed it.
C4_Witness ==
    /\ lastResp.route = "chunk"
    /\ lastResp.status = 404
    /\ lastResp.uploadId \in reaped
    /\ \E k \in DOMAIN attached : k[1] = lastResp.uploadId

\* A complete call of the session ends in failure in this step: a chunk file
\* cannot be read, the write stream fails, the temporary file is gone, or the
\* upload to the store throws.
CompleteFails(id) ==
    \/ /\ CompleteBegin(id)
       /\ id \in DOMAIN activeUploads
       /\ lastResp' = Resp("complete", 500, id)
    \/ \E p \in DOMAIN completeReqs :
          /\ completeReqs[p].uploadId = id
          /\ \/ CompleteStreamError(p)
             \/ CompleteReadTemp(p) /\ p \notin DOMAIN completeReqs'
             \/ CompleteReturn(p, FALSE)

FilesPresent(id) ==
    \A i \in 1..Len(activeUploads[id].chunks) :
        activeUploads[id].chunks[i].path \in DOMAIN chunksDir

\* The failed uploads of the session's earlier complete calls that assembled
\* what a complete call would assemble now.
FailedUploadsSeeingSame(id) ==
    {i \in 1..Len(calls) : /\ ~calls[i].ok
                           /\ calls[i].uploadId = id
                           /\ calls[i].seen = Seen(id)}

CompletedIds == {calls[i].uploadId : i \in {j \in 1..Len(calls) : calls[j].ok}}

\* C12: the step in which the upload of a complete call returns removes the
\* session from the registry and deletes the temporary file and the chunk
\* files the call assembled, the object being in the store; from then on the
\* id stays out of the registry and a complete or chunk call naming it is
\* answered 404.
C12_SuccessfulCompleteRemovesSession ==
    [][/\ \A p \in DOMAIN completeReqs :
             (calls' # calls /\ CompleteReturn(p, TRUE)) =>
                LET req == completeReqs[p]
                IN  /\ req.finalKey \in DOMAIN bucket'
                    /\ req.uploadId \notin DOMAIN activeUploads'
                    /\ req.tempFilePath \notin DOMAIN uploadsDir'
                    /\ \A i \in 1..Len(req.chunks) :
                          req.chunks[i].path \notin DOMAIN chunksDir'
                    /\ req.uploadId \in {calls'[i].uploadId : i \in 1..Len(calls')}
       /\ \A id \in CompletedIds :
             /\ id \notin DOMAIN activeUploads'
             /\ (used' # used /\ CompleteBegin(id))
                   => lastResp' = Resp("complete", 404, id)
             /\ (chunkReqs' # chunkReqs /\ used' = used /\ ChunkHandle
                    /\ Head(chunkReqs).uploadId = id)
                   => lastResp' = Resp("chunk", 404, id)]_vars

\* A chunk call naming a completed session was answered 404; the complete call
\* had assembled a chunk, whose file is gone.
C12_Witness ==
    /\ lastResp.route = "chunk"
    /\ lastResp.status = 404
    /\ lastResp.uploadId \in CompletedIds
    /\ \E i \in 1..Len(calls) :
          /\ calls[i].ok
          /\ calls[i].uploadId = lastResp.uploadId
          /\ calls[i].body # <<>>

\* C13: no two complete calls of one session are between their lookup of the
\* session and the end of their upload at the same time.
C13_OneCompleteInFlight ==
    \A p, q \in DOMAIN completeReqs :
        p # q => completeReqs[p].uploadId # completeReqs[q].uploadId

\* C14: the handler of a chunk call whose upload id is not in the registry
\* answers 404, leaves the registry as it was and schedules the unlink of the
\* file the call wrote; the scheduled callback removes that file and creates
\* no session.
C14_ChunkForUnknownSession ==
    [][/\ (/\ chunkReqs' # chunkReqs /\ used' = used
           /\ ChunkHandle
           /\ Head(chunkReqs).uploadId \notin DOMAIN activeUploads)
          => /\ lastResp' = Resp("chunk", 404, Head(chunkReqs).uploadId)
             /\ activeUploads' = activeUploads
             /\ Head(chunkReqs).path \in immediates'
       /\ \A path \in immediates :
             ChunkImmediateUnlink(path)
             => /\ path \notin DOMAIN chunksDir'
                /\ activeUploads' = activeUploads]_vars

\* A chunk call was answered 404 and the callback it scheduled has run: no
\* file of that upload id is left among the chunks.
C14_Witness ==
    /\ lastResp.route = "chunk"
    /\ lastResp.status = 404
    /\ immediates = {}
    /\ chunkReqs = <<>>
    /\ lastResp.uploadId \notin DOMAIN activeUploads
    /\ \A c \in ChunkIndexes :
          ChunkFileName(lastResp.uploadId, c) \notin DOMAIN chunksDir

\* C15: the receivedChunks of a successful chunk call is the number of
\* distinct indexes in the chunk map of the session after the insert.
C15_ReceivedChunksCountsIndexes ==
    (/\ lastResp.route = "chunk"
     /\ lastResp.status = 200
     /\ lastResp.uploadId \in DOMAIN activeUploads)
    => /\ lastResp.receivedChunks =
             Cardinality(Indexes(activeUploads[lastResp.uploadId].chunks))
       /\ lastResp.receivedChunks =
             Cardinality({k \in DOMAIN attached : k[1] = lastResp.uploadId})

\* The last chunk call attached, for the second time, the only index of its
\* session, and reported one chunk.
C15_Witness ==
    /\ lastResp.route = "chunk"
    /\ lastResp.status = 200
    /\ lastResp.receivedChunks = 1
    /\ lastResp.uploadId \in DOMAIN activeUploads
    /\ attached[<<lastResp.uploadId, lastResp.index>>].times = 2

\* C19: a run of the cleanup task deletes no chunk file that a session still
\* in the registry after the run refers to.
C19_SweepSparesLiveSessions ==
    [][cleanupOrphanedChunks =>
          \A id \in DOMAIN activeUploads' :
             \A i \in 1..Len(activeUploads'[id].chunks) :
                activeUploads'[id].chunks[i].path \in DOMAIN chunksDir
                => activeUploads'[id].chunks[i].path \in DOMAIN chunksDir']_vars

\* Every upload id init can return in a run.
AllIds == {ToHex(2 * k) : k \in 0..(MaxRequests - 1)}

\* C20: with the cleanup task run by its timers, a session that is in the
\* registry when its age exceeds uploadSessionTimeout is eventually out of the
\* registry.
C20_ExpiredSessionsEventuallyRemoved ==
    \A id \in AllIds :
        (id \in DOMAIN activeUploads
         /\ now - activeUploads[id].createdAt > uploadSessionTimeout)
        ~> (id \notin DOMAIN activeUploads)

\* The cleanup task has removed a session that no complete call was ever made
\* for, and the session had chunks.
C20_Witness ==
    /\ now > uploadSessionTimeout
    /\ \E id \in reaped :
          /\ id \notin DOMAIN activeUploads
          /\ \A i \in 1..Len(calls) : calls[i].uploadId # id
          /\ \E k \in DOMAIN attached : k[1] = id
    /\ lastResp.route # "complete"

\* C27: whatever the order in which the chunk calls of the sessions are
\* written and handled, the chunk map of a session in the registry holds one
\* entry for each index attached to it and no other, and the entry of an index
\* is the one set by the last call handled for that index.
C27_ChunkMapOneEntryPerIndex ==
    \A id \in DOMAIN activeUploads :
        LET chunks == activeUploads[id].chunks
        IN  /\ \A i, j \in 1..Len(chunks) :
                  chunks[i].index = chunks[j].index => i = j
            /\ Indexes(chunks) = {k[2] : k \in {x \in DOMAIN attached : x[1] = id}}
            /\ \A i \in 1..Len(chunks) :
                  /\ chunks[i].path = attached[<<id, chunks[i].index>>].path
                  /\ chunks[i].size = Len(attached[<<id, chunks[i].index>>].payload)

\* One index of a session in the registry was attached twice and another
\* chunk call, already written to disk, waits for its handler.
C27_Witness ==
    /\ chunkReqs # <<>>
    /\ \E k \in DOMAIN attached :
          /\ k[1] \in DOMAIN activeUploads
          /\ attached[k].times = 2

\* C26: while a complete call of a session is between its lookup and its
\* answer, a run of the cleanup task neither removes the session from the
\* registry nor deletes the chunk files the call has listed.
C26_ReaperSparesCompleting ==
    [][cleanupOrphanedChunks =>
          \A p \in DOMAIN completeReqs :
             LET req == completeReqs[p]
             IN  /\ req.uploadId \in DOMAIN activeUploads
                       => req.uploadId \in DOMAIN activeUploads'
                 /\ \A i \in 1..Len(req.chunks) :
                       req.chunks[i].path \in DOMAIN chunksDir
                       => req.chunks[i].path \in DOMAIN chunksDir']_vars

\* C29: before complete starts the upload, it has sent at least one
\* existence probe for the key userId/fileName of the session.
C29_CompleteProbesTargetKey ==
    \A i \in 1..Len(calls) :
        calls[i].op = "uploadFileToB2" =>
            \E j \in 1..(i - 1) :
                /\ calls[j].op = "HeadObject"
                /\ calls[j].key = calls[i].key

\* C36: when a complete call is answered with success, no chunk file attached
\* to its session is left on disk, the files attached while the call was
\* waiting for the upload included.
C36_NoChunkLeftAfterSuccess ==
    [][\A p \in DOMAIN completeReqs :
          (calls' # calls /\ CompleteReturn(p, TRUE)) =>
             \A k \in DOMAIN attached :
                k[1] = completeReqs[p].uploadId
                => attached[k].path \notin DOMAIN chunksDir']_vars

----------------------------------------------------------------------------
(* Claims about the cleanup of the complete route, checked under SpecUnlink. *)

\* C25: when the upload inside complete has succeeded, the call answers 200
\* with the key and the session is removed, whichever of the unlinks of the
\* temporary file and of the chunk files throw; the files whose unlink threw
\* stay on disk, the others are removed.
C25_CleanupFailureKeepsSuccess ==
    [][\A p \in DOMAIN completeReqs :
       \A failing \in SUBSET (0..Cardinality(ChunkIndexes)) :
          (calls' # calls /\ failing # {} /\ CompleteFinish(p, TRUE, failing)) =>
             LET req == completeReqs[p]
             IN  /\ lastResp'.route = "complete"
                 /\ lastResp'.status = 200
                 /\ lastResp'.uploadId = req.uploadId
                 /\ lastResp'.b2Key = req.finalKey
                 /\ bucket'[req.finalKey] = req.body
                 /\ req.uploadId \notin DOMAIN activeUploads'
                 /\ \A k \in 0..Len(req.chunks) :
                       LET path == CleanupPaths(req)[k]
                           dir == IF k = 0 THEN uploadsDir ELSE chunksDir
                           after == IF k = 0 THEN uploadsDir' ELSE chunksDir'
                       IN  path \in DOMAIN after <=>
                              (k \in failing /\ path \in DOMAIN dir)]_vars

\* A complete call was answered 200 and its session is gone, while a chunk
\* file it had assembled is still on disk with no chunk request under way.
C25_Witness ==
    /\ lastResp.route = "complete"
    /\ lastResp.status = 200
    /\ lastResp.uploadId \notin DOMAIN activeUploads
    /\ chunkReqs = <<>>
    /\ immediates = {}
    /\ \E i \in 1..Len(calls) :
          /\ calls[i].ok
          /\ calls[i].uploadId = lastResp.uploadId
          /\ \E k \in DOMAIN calls[i].seen.attached :
                calls[i].seen.attached[k].path \in DOMAIN chunksDir

\* C31: a complete call assembles the chunks the map of the session holds when
\* the call reads it, each once, in ascending index order, whether or not the
\* indexes are contiguous, whether or not there is any, and whatever size init
\* was told; when the upload succeeds the call answers 200 with fileSize the
\* number of bytes assembled.
C31_AssemblesWhatIsPresent ==
    [][/\ \A id \in DOMAIN activeUploads :
             (used' # used /\ CompleteBegin(id)) =>
                LET chunks == activeUploads[id].chunks
                    order == Ascending(Indexes(chunks))
                    bytes == Flatten([k \in 1..Len(order) |->
                                 chunksDir[EntryAt(chunks, order[k]).path].data])
                IN  \E p \in (DOMAIN completeReqs') \ (DOMAIN completeReqs) :
                       /\ completeReqs'[p].uploadId = id
                       /\ [i \in 1..Len(completeReqs'[p].chunks) |->
                              completeReqs'[p].chunks[i].index] = order
                       /\ uploadsDir'[TempFileName(id, now)].data = bytes
                       /\ completeReqs'[p].totalSize = Len(bytes)
       /\ \A p \in DOMAIN completeReqs :
             (/\ calls' # calls
              /\ p \notin DOMAIN completeReqs'
              /\ calls'[Len(calls')].ok)
             => /\ lastResp'.route = "complete"
                /\ lastResp'.status = 200
                /\ lastResp'.fileSize = completeReqs[p].totalSize
                /\ bucket'[completeReqs[p].finalKey] = completeReqs[p].body]_vars

\* A complete call that assembled the index 1 alone was answered 200 with a
\* size that is not the one init was told; another call of a session without
\* chunks was answered 200 with size 0.
C31_Witness ==
    /\ lastResp.route = "complete"
    /\ lastResp.status = 200
    /\ Number(lastResp.fileSize) \notin FileSizes
    /\ \E i \in 1..Len(calls) :
          /\ calls[i].ok
          /\ calls[i].uploadId = lastResp.uploadId
          /\ {k[2] : k \in DOMAIN calls[i].seen.attached} = {Num(1)}
          /\ calls[i].body # <<>>
    /\ \E i \in 1..Len(calls) :
          /\ calls[i].ok
          /\ calls[i].body = <<>>

----------------------------------------------------------------------------
(* Claims about the cleanup task, checked under SpecSweep. *)

\* C32: in a run of the cleanup task in which the unlink of a chunk file of an
\* expired session throws, every expired session is still removed from the
\* registry and every other chunk file of the expired sessions is still
\* deleted; the files whose unlink threw stay.
C32_SweepGoesOnAfterUnlinkError ==
    [][\A failing \in SUBSET (DOMAIN chunksDir) :
          (/\ failing \cap ExpiredChunkPaths(activeUploads, now) # {}
           /\ cleanupSweep(failing))
          => /\ \A id \in DOMAIN activeUploads :
                   Expired(activeUploads[id], now) => id \notin DOMAIN activeUploads'
             /\ \A path \in ExpiredChunkPaths(activeUploads, now) :
                   path \in DOMAIN chunksDir' <=>
                      (path \in failing /\ path \in DOMAIN chunksDir)]_vars

\* Two sessions have been expired and removed, and a chunk file of one of them
\* is still on disk with no chunk request under way.
C32_Witness ==
    /\ Cardinality(reaped) = 2
    /\ reaped \cap DOMAIN activeUploads = {}
    /\ chunkReqs = <<>>
    /\ immediates = {}
    /\ \E k \in DOMAIN attached :
          /\ k[1] \in reaped
          /\ attached[k].path \in DOMAIN chunksDir

\* C33: a run of the cleanup task removes from the registry only sessions
\* strictly older than uploadSessionTimeout; every session whose age is at most
\* the timeout stays, with its fields and its chunk map as they were.
C33_SweepKeepsYoungSessions ==
    [][\A failing \in SUBSET (DOMAIN chunksDir) :
          cleanupSweep(failing)
          => /\ DOMAIN activeUploads' \subseteq DOMAIN activeUploads
             /\ \A id \in DOMAIN activeUploads :
                   IF now - activeUploads[id].createdAt <= uploadSessionTimeout
                   THEN /\ id \in DOMAIN activeUploads'
                        /\ activeUploads'[id] = activeUploads[id]
                   ELSE id \notin DOMAIN activeUploads']_vars

\* At the instant a session is exactly as old as the timeout, the cleanup task
\* has run (it deleted a chunk file of the session, old enough for the age
\* sweep) and the session is in the registry.
C33_Witness ==
    /\ now = uploadSessionTimeout
    /\ reaped = {}
    /\ chunkReqs = <<>>
    /\ \E id \in DOMAIN activeUploads :
          /\ now - activeUploads[id].createdAt = uploadSessionTimeout
          /\ \E i \in 1..Len(activeUploads[id].chunks) :
                activeUploads[id].chunks[i].path \notin DOMAIN chunksDir

----------------------------------------------------------------------------
(* Claims about temporary files, checked under SpecTemp. *)

\* The temporary assembled files on disk that are older than maxChunkAge.
OldTempFiles ==
    {f \in DOMAIN uploadsDir : now - uploadsDir[f].mtime > maxChunkAge}

\* C37: a temporary assembled file that is on disk and older than maxChunkAge
\* (a failed complete call leaves its file behind) is eventually deleted: the
\* next run of the cleanup task removes it.  A file that is old stays old for
\* as long as it exists, so it is deleted when no old file is left.
C37_OldTempFileEventuallyDeleted ==
    (OldTempFiles # {}) ~> (OldTempFiles = {})

\* The upload of a complete call failed, no call of the session succeeded, time
\* has passed and the temporary file the call wrote is gone.
C37_Witness ==
    /\ now > maxChunkAge
    /\ uploadsDir = EmptyMap
    /\ lastResp.route = "complete"
    /\ lastResp.status = 500
    /\ \E i \in 1..Len(calls) :
          /\ ~calls[i].ok
          /\ calls[i].uploadId = lastResp.uploadId
    /\ \A i \in 1..Len(calls) : ~calls[i].ok

----------------------------------------------------------------------------
(* Claims about the termination signals, checked under SpecSignal. *)

\* C39: the SIGTERM handler deletes every chunk file a session of the registry
\* refers to, but for those whose unlink throws, deletes no other file, and
\* leaves the registry as it was: no session and no chunk map entry is
\* removed.
C39_SigtermKeepsRegistry ==
    [][\A failing \in SUBSET (DOMAIN chunksDir) :
          Sigterm(failing)
          => /\ activeUploads' = activeUploads
             /\ \A f \in DOMAIN chunksDir :
                   f \in DOMAIN chunksDir' <=>
                      (f \in failing \/ f \notin ReferencedChunkPaths(activeUploads))
             /\ DOMAIN chunksDir' \subseteq DOMAIN chunksDir
             /\ uploadsDir' = uploadsDir]_vars

\* A session of the registry holds two chunk map entries whose files have been
\* deleted.
C39_Witness ==
    \E id \in DOMAIN activeUploads :
        /\ Len(activeUploads[id].chunks) = 2
        /\ \A i \in 1..2 : activeUploads[id].chunks[i].path \notin DOMAIN chunksDir

----------------------------------------------------------------------------
(* Claims about the chunk route, checked under SpecChunk. *)

\* C30: every key of the chunk map of every session is a non-negative
\* integer, whatever the chunkIndex fields of the chunk calls were.
C30_ChunkKeysAreNaturals ==
    \A id \in DOMAIN activeUploads :
        \A i \in 1..Len(activeUploads[id].chunks) :
            /\ ~activeUploads[id].chunks[i].index.nan
            /\ activeUploads[id].chunks[i].index.n >= 0

\* C34: no chunk file is referred to by two entries of the chunk maps: not by
\* two sessions, and not by two indexes of one session.
C34_PayloadHasOneOwner ==
    \A id1, id2 \in DOMAIN activeUploads :
        \A i \in 1..Len(activeUploads[id1].chunks) :
            \A j \in 1..Len(activeUploads[id2].chunks) :
                activeUploads[id1].chunks[i].path = activeUploads[id2].chunks[j].path
                => (id1 = id2 /\ i = j)

----------------------------------------------------------------------------
(* Claims about init, checked under SpecInit. *)

\* The body has no such field, or an empty string for it.
Lacks(v) == v.kind = "undefined" \/ (v.kind = "string" /\ v.s = <<>>)

CreatesSession ==
    /\ lastResp'.status = 200
    /\ lastResp'.uploadId \notin DOMAIN activeUploads
    /\ DOMAIN activeUploads' = DOMAIN activeUploads \cup {lastResp'.uploadId}
    /\ lastResp'.fileName = activeUploads'[lastResp'.uploadId].fileName

\* C16: an init request without fileName or fileSize is answered 400 and leaves
\* the registry as it was; every other init request creates a session and
\* returns its uploadId and finalFileName.
C16_InitRejectsMissingFieldsOnly ==
    [][\A f \in InitFileNames, z \in InitFileSizes, u \in InitUserIds :
          UploadInit(f, z, u) =>
             IF Lacks(f) \/ Lacks(z)
             THEN lastResp'.status = 400 /\ activeUploads' = activeUploads
             ELSE CreatesSession]_vars

\* C17: an init answered 200 adds one session and changes no other, under the
\* uploadId it returns, with an empty chunk map, createdAt the time of the
\* call, the userId of the body or "guest" when the body has none, and a stored
\* name with the extension of the original name.
C17_InitInsertsOneSession ==
    [][\A f \in InitFileNames, z \in InitFileSizes, u \in InitUserIds :
          (UploadInit(f, z, u) /\ lastResp'.status = 200) =>
             LET id == lastResp'.uploadId
                 session == activeUploads'[id]
             IN  /\ id \notin DOMAIN activeUploads
                 /\ DOMAIN activeUploads' = DOMAIN activeUploads \cup {id}
                 /\ \A other \in DOMAIN activeUploads :
                       activeUploads'[other] = activeUploads[other]
                 /\ session.chunks = <<>>
                 /\ session.createdAt = now
                 /\ session.userId = IF u.kind = "undefined" THEN Guest ELSE u.s
                 /\ session.originalFileName = f.s
                 /\ pathParse(session.fileName).ext = pathParse(f.s).ext
                 /\ lastResp'.fileName = session.fileName]_vars

\* The last init, sent after time had passed with a userId and a name with an
\* extension, created a session beside an older one.
C17_Witness ==
    /\ lastResp.route = "init"
    /\ lastResp.status = 200
    /\ now > 0
    /\ Cardinality(DOMAIN activeUploads) >= 2
    /\ lastResp.uploadId \in DOMAIN activeUploads
    /\ LET session == activeUploads[lastResp.uploadId]
       IN  /\ session.createdAt = now
           /\ session.userId = <<"u">>
           /\ pathParse(session.fileName).ext = <<".", "t">>

----------------------------------------------------------------------------
(* Claims about key resolution, checked under SpecKeys. *)

\* The candidate itself, then basename_1.ext, basename_2.ext, ...
NthName(candidate, k) ==
    IF k = 0 THEN candidate
    ELSE pathParse(candidate).name \o <<"_">> \o ToDecimal(k)
             \o pathParse(candidate).ext

\* The first of those names whose key is not among keys.
FirstFreeName(userId, candidate, keys) ==
    LET Free(k) == ObjectKey(userId, NthName(candidate, k)) \notin keys
        first == CHOOSE k \in 0..Cardinality(keys) :
                     Free(k) /\ \A j \in 0..(k - 1) : ~Free(j)
    IN  NthName(candidate, first)

Resolved(task) == task.pc \in {"read", "put", "done"}

\* C5, as amended: when no object was written between the start and the end of
\* a file's resolution and every probe was answered (object found, or not
\* found), the resolved name is the first of candidate, basename_1.ext,
\* basename_2.ext, ... whose key the bucket does not hold; and a resolved name
\* is always the candidate or the basename, "_", a number, the extension.
C5_ResolvesFirstFreeName ==
    \A i \in 1..Len(batch.tasks) :
        LET task == batch.tasks[i]
        IN  /\ \E k \in 0..task.suffix : task.b2Filename = NthName(task.candidate, k)
            /\ (Resolved(task) /\ task.quiet /\ ~task.probeFailed) =>
                  task.b2Filename =
                      FirstFreeName(batch.userId, task.candidate, DOMAIN task.seen)

\* C5, as stated: the same with no condition on the probes.
C5_AsStated ==
    \A i \in 1..Len(batch.tasks) :
        LET task == batch.tasks[i]
        IN  (Resolved(task) /\ task.quiet) =>
                task.b2Filename =
                    FirstFreeName(batch.userId, task.candidate, DOMAIN task.seen)

\* a.t was resolved to a_2.t because a.t and a_1.t existed.
C5_Witness ==
    \E i \in 1..Len(batch.tasks) :
        LET task == batch.tasks[i]
        IN  /\ Resolved(task) /\ task.quiet /\ ~task.probeFailed
            /\ task.candidate = <<"a", ".", "t">>
            /\ task.b2Filename = <<"a", "_", "2", ".", "t">>
            /\ KeysBefore \subseteq DOMAIN task.seen

\* C6: an object the bucket holds under a key is not written again by a later
\* upload.  Stated for the runs in which every existence probe is answered, so
\* that a write after a failed probe does not count against it.
C6_CommittedKeyNeverOverwritten ==
    [][(\A i \in 1..Len(batch.tasks) : ~batch'.tasks[i].probeFailed) =>
          \A k \in DOMAIN bucket : k \in DOMAIN bucket' /\ bucket'[k] = bucket[k]]_vars

\* The entries of the two lists that belong to the file i of the call.
EntriesOf(i) ==
    Cardinality({k \in 1..Len(batch.results) :
                    batch.results[k].path = MulterPath(i)})
    + Cardinality({k \in 1..Len(batch.errors) :
                      batch.errors[k].path = MulterPath(i)})

\* C18: when a call with several files has returned, every file is once in the
\* list of results or once in the list of errors, the two lists together are
\* as long as the list of files, the results are the files whose upload
\* succeeded, and an upload was attempted for every file, those after a failed
\* one included.
C18_EveryFileHasOneOutcome ==
    batch.returned =>
        /\ \A i \in 1..Len(batch.tasks) : EntriesOf(i) = 1
        /\ Len(batch.results) + Len(batch.errors) = Len(batch.tasks)
        /\ \A k \in 1..Len(batch.results) : batch.results[k].success
        /\ \A k \in 1..Len(batch.errors) : ~batch.errors[k].success
        /\ \A i \in 1..Len(batch.tasks) :
              /\ batch.tasks[i].pc = "done"
              /\ batch.tasks[i].success <=>
                    \E k \in 1..Len(batch.results) :
                        batch.results[k].path = MulterPath(i)
        /\ Len(calls) = Len(batch.tasks)

\* A POST /upload with two files has returned: the first file failed, the
\* second was uploaded.
C18_Witness ==
    /\ batch.returned
    /\ batch.kind = "legacy"
    /\ Len(batch.tasks) = 2
    /\ ~batch.tasks[1].success
    /\ batch.tasks[2].success
    /\ Len(batch.errors) = 1
    /\ Len(batch.results) = 1

\* C23: key resolution issues at most a fixed number of existence probes,
\* whatever the bucket holds: a resolution that has been answered "exists" for
\* as many keys as the bucket held before the call has stopped, failing with
\* ResolutionExhausted, and probes no further key.
C23_ProbesBounded ==
    \A i \in 1..Len(batch.tasks) :
        batch.tasks[i].probes <= Cardinality(KeysBefore)

\* C24: when the existence probe of a file fails with an error other than
\* not-found, the loop ends at once with the name that was being probed, as it
\* does on not-found: nothing is stored by the probe, the name is kept until
\* the upload, and the upload goes to the key of that name.
C24_ProbeErrorProceedsWithCandidate ==
    [][\A i \in 1..MaxFiles :
          /\ KeyProbe(i, TRUE) =>
                /\ batch'.tasks[i].pc = IF batch.kind = "legacy" THEN "put" ELSE "read"
                /\ batch'.tasks[i].b2Filename = batch.tasks[i].b2Filename
                /\ batch'.tasks[i].suffix = batch.tasks[i].suffix
                /\ batch'.tasks[i].probes = batch.tasks[i].probes + 1
                /\ bucket' = bucket
          /\ (i \in 1..Len(batch.tasks) /\ batch.tasks[i].pc \in {"read", "put"}) =>
                /\ batch'.tasks[i].b2Filename = batch.tasks[i].b2Filename
                /\ batch'.tasks[i].pc \in {"read", "put", "done"}
                /\ batch'.tasks[i].pc # batch.tasks[i].pc /\ batch.tasks[i].pc = "put" =>
                      /\ Len(calls') = Len(calls) + 1
                      /\ calls'[Len(calls')].op = "PutObject"
                      /\ calls'[Len(calls')].key =
                            ObjectKey(batch.userId, batch.tasks[i].b2Filename)
    ]_vars

\* A probe of a key that exists failed, and the file was stored under that
\* key.
C24_Witness ==
    \E i \in 1..Len(batch.tasks) :
        /\ batch.tasks[i].probeFailed
        /\ batch.tasks[i].pc = "done"
        /\ batch.tasks[i].overwrote
        /\ batch.tasks[i].probes = 1

\* C35: two files of one uploadFilesToB2 call that carry the same original
\* name, both stored with every probe answered, are stored under two different
\* keys, and neither store replaces the other file.
C35_SameNamesGetDistinctKeys ==
    batch.kind = "uploadFilesToB2" =>
        \A i, j \in 1..Len(batch.tasks) :
            LET a == batch.tasks[i]
                b == batch.tasks[j]
            IN  (/\ i # j
                 /\ a.originalname = b.originalname
                 /\ a.pc = "done" /\ b.pc = "done"
                 /\ a.success /\ b.success
                 /\ ~a.probeFailed /\ ~b.probeFailed)
                => /\ a.b2Filename # b.b2Filename
                   /\ ObjectKey(batch.userId, a.b2Filename) \in DOMAIN bucket
                   /\ ObjectKey(batch.userId, b.b2Filename) \in DOMAIN bucket

\* C38: when POST /upload answers, the received file and the temporary copy
\* of every file of the request have been deleted, the upload of the file
\* having succeeded or failed; they are deleted as soon as the file has been
\* dealt with.
C38_LegacyLocalFilesDeleted ==
    batch.kind = "legacy" =>
        /\ \A i \in 1..Len(batch.tasks) :
              batch.tasks[i].pc = "done" =>
                 /\ MulterPath(i) \notin batch.tmp
                 /\ LegacyTempPath(i) \notin batch.tmp
        /\ batch.returned => batch.tmp = {}

\* A POST /upload with two files has answered with no local file left: the
\* upload of the first file succeeded, the upload of the second failed.
C38_Witness ==
    /\ batch.kind = "legacy"
    /\ batch.returned
    /\ batch.tmp = {}
    /\ Len(batch.tasks) = 2
    /\ batch.tasks[1].success
    /\ ~batch.tasks[2].success
    /\ Len(calls) = 2

----------------------------------------------------------------------------
(* Claims about the multipart upload, checked under SpecB2. *)

IsMultipart == b2.fileSize > singleUploadLimit

CompletionCalls ==
    {i \in 1..Len(calls) : calls[i].op = "CompleteMultipartUpload"}

UploadedInStore ==
    IF b2.uploadId \in DOMAIN b2.store THEN b2.store[b2.uploadId].parts
    ELSE EmptyMap

\* The least k with k * partSize >= n.
CeilParts(n) == CHOOSE k \in 0..n : k * partSize >= n /\ (k - 1) * partSize < n

\* C7: a completion call is sent only when every part upload has answered
\* without a failure, and its list is the parts 1..partCount, each once, in
\* ascending order, each with the tag the store returned for it.
C7_CompletionListsEveryPart ==
    \A i \in CompletionCalls :
        /\ b2.inflight = {} /\ b2.failedParts = {}
        /\ DOMAIN UploadedInStore = 1..b2.partCount
        /\ calls[i].parts =
              [n \in 1..b2.partCount |->
                  [PartNumber |-> n, ETag |-> ETag(UploadedInStore[n])]]

\* The completion call was sent after the parts ended out of order.
C7_Witness ==
    /\ CompletionCalls # {}
    /\ b2.partCount >= 2
    /\ b2.endOrder[1] # 1

\* C8: above the single-upload limit the parts are numbered
\* 1..ceil(size/partSize), part n is the bytes (n-1)*partSize+1..n*partSize of
\* the file (the last part ending with the file), and the completed object is
\* the file, byte for byte.
C8_PartsAreTheFileInOrder ==
    IsMultipart =>
        /\ b2.inflight # {} \/ b2.endOrder # <<>> =>
              b2.partCount = CeilParts(b2.fileSize)
        /\ \A n \in DOMAIN UploadedInStore :
              /\ n \in 1..CeilParts(b2.fileSize)
              /\ UploadedInStore[n] =
                    SubSeq(b2.fileBuffer, (n - 1) * partSize + 1,
                           Min(n * partSize, b2.fileSize))
              /\ Len(UploadedInStore[n]) =
                    IF n < CeilParts(b2.fileSize) THEN partSize
                    ELSE b2.fileSize - (n - 1) * partSize
        /\ b2.result = "ok" =>
              /\ DOMAIN UploadedInStore = 1..CeilParts(b2.fileSize)
              /\ bucket[b2.key] = b2.fileBuffer

\* A file whose last part is shorter than the others was completed.
C8_Witness ==
    /\ IsMultipart
    /\ b2.result = "ok"
    /\ b2.fileSize % partSize # 0
    /\ b2.key \in DOMAIN bucket

\* C9: a multipart upload returns success only when every part upload and the
\* completion call have succeeded; once a part upload has failed the upload has
\* thrown and no completion call is sent.
C9_SuccessNeedsEveryPart ==
    IsMultipart =>
        /\ b2.result = "ok" =>
              /\ b2.failedParts = {}
              /\ DOMAIN UploadedInStore = 1..b2.partCount
              /\ CompletionCalls # {}
              /\ b2.store[b2.uploadId].status = "completed"
        /\ b2.failedParts # {} =>
              /\ b2.result = "throw"
              /\ CompletionCalls = {}

\* One part upload failed after another had answered.
C9_Witness ==
    /\ b2.failedParts # {}
    /\ DOMAIN UploadedInStore # {}
    /\ b2.result = "throw"

\* C10: when uploadFileToB2 has returned or thrown, the multipart upload it
\* created has been completed or aborted.
C10_MultipartCompletedOrAborted ==
    (b2.result # "pending" /\ b2.uploadId \in DOMAIN b2.store) =>
        \/ b2.store[b2.uploadId].status \in {"completed", "aborted"}
        \/ \E i \in 1..Len(calls) : calls[i].op = "AbortMultipartUpload"

\* The calls of one kind sent to the store so far.
CallsOf(op) == {i \in 1..Len(calls) : calls[i].op = op}

MultipartCalls ==
    CallsOf("CreateMultipartUpload") \cup CallsOf("UploadPart")
        \cup CallsOf("CompleteMultipartUpload")

\* C21: uploadFileToB2 on a file of at most 5 MiB sends exactly one PutObject
\* and no call of a multipart upload; on a larger file it sends exactly one
\* CreateMultipartUpload and no PutObject.  The size compared is the one of the
\* file on disk.
C21_SingleOrMultipartBySize ==
    /\ b2.fileSize = Len(b2.fileBuffer)
    /\ b2.pc # "start" =>
          IF b2.fileSize <= 5
          THEN /\ Cardinality(CallsOf("PutObject")) = 1
               /\ MultipartCalls = {}
               /\ b2.store = EmptyMap
          ELSE /\ Cardinality(CallsOf("CreateMultipartUpload")) = 1
               /\ CallsOf("PutObject") = {}
               /\ Cardinality(DOMAIN b2.store) <= 1

\* A file of exactly 5 MiB was put in one call.
C21_Witness ==
    /\ b2.fileSize = 5
    /\ b2.result = "ok"
    /\ CallsOf("PutObject") # {}
    /\ bucket[b2.key] = b2.fileBuffer

\* C22: during a multipart upload the part uploads in flight at the same time
\* stay within a bound that does not grow with the number of parts: the parts
\* of the largest file are never all in flight together.
C22_PartsInFlightBounded ==
    Cardinality(b2.inflight) < PartCount(MaxFileSize)

\* C28: the upload keeps a bounded number of bytes of the object in memory, of
\* the order of one part, whatever the size of the object.
C28_BoundedBytesResident ==
    ResidentBytes <= partSize

====
